---- MODULE Spec2Model ----
(***************************************************************************)
(* A model of statsd-go: the UDP metrics aggregation daemon of main.go.    *)
(*                                                                         *)
(* handleMessage goroutines decode datagrams into Packets and send them on *)
(* the buffered channel In; the single monitor goroutine receives Packets  *)
(* and applies them to the maps counters, gauges and timers, and on every  *)
(* tick of its ticker runs submit(), which formats the maps for Graphite   *)
(* and Ganglia and resets counters and timers.                             *)
(*                                                                         *)
(* Text is modelled as sequences of one-character strings, so that the two *)
(* regular expressions, strconv.ParseFloat and strconv.Atoi are computed   *)
(* character by character as the Go library does.                          *)
(***************************************************************************)
EXTENDS Integers, Sequences, FiniteSets, TLC

(***************************************************************************)
(* Bounds of the model.                                                    *)
(***************************************************************************)
\* capacity of the channel In as modelled (main.go makes it 10000)
QueueCap == 1
\* handleMessage goroutines that may be in flight at once
MaxTasks == 1
\* the same two for the workload that orders samples
OrderCap == 2
OrderTasks == 2
\* largest absolute value a gauge may reach
MaxAbs == 9
\* Packets monitor may apply between two flushes, per workload
MaxWindow == 2
MaxObs == 5
MaxRun == 10
MaxTrace == 4

(***************************************************************************)
(* Characters.                                                             *)
(***************************************************************************)
Digits == {"0", "1", "2", "3", "4", "5", "6", "7", "8", "9"}

Letters ==
  {"a", "b", "c", "d", "e", "f", "g", "h", "i", "j", "k", "l", "m",
   "n", "o", "p", "q", "r", "s", "t", "u", "v", "w", "x", "y", "z",
   "A", "B", "C", "D", "E", "F", "G", "H", "I", "J", "K", "L", "M",
   "N", "O", "P", "Q", "R", "S", "T", "U", "V", "W", "X", "Y", "Z"}

\* sanitizeRegexp is the complement of this class: [^a-zA-Z0-9\-_\.:\|@]
SanitizeKeep == Letters \cup Digits \cup {"-", "_", ".", ":", "|", "@"}

\* [a-zA-Z0-9_\.] of packetRegexp, group 1
NameChars == Letters \cup Digits \cup {"_", "."}

\* [0-9\.] of packetRegexp, groups 2 and 5
NumChars == Digits \cup {"."}

DigitVal(c) ==
  CASE c = "0" -> 0 [] c = "1" -> 1 [] c = "2" -> 2 [] c = "3" -> 3
    [] c = "4" -> 4 [] c = "5" -> 5 [] c = "6" -> 6 [] c = "7" -> 7
    [] c = "8" -> 8 [] c = "9" -> 9

(***************************************************************************)
(* handleMessage: sanitizing and matching.                                 *)
(***************************************************************************)
\* sanitizeRegexp.ReplaceAllString(buf.String(), ""): every character
\* outside SanitizeKeep is removed
Sanitize(buf) == SelectSeq(buf, LAMBDA c : c \in SanitizeKeep)

\* the end of the longest run of characters of class cls that starts at
\* position i of s (i itself when s[i] is not in cls): a greedy cls*
RECURSIVE RunEnd(_, _, _)
RunEnd(s, i, cls) ==
  IF i <= Len(s) /\ s[i] \in cls THEN RunEnd(s, i + 1, cls) ELSE i

CharAt(s, i) == IF i >= 1 /\ i <= Len(s) THEN s[i] ELSE "<end>"

\* (c|ms|g) at position i: the position after the alternative that matches,
\* 0 when none does
TypeEnd(s, i) ==
  IF CharAt(s, i) = "c" THEN i + 1
  ELSE IF CharAt(s, i) = "m" /\ CharAt(s, i + 1) = "s" THEN i + 2
  ELSE IF CharAt(s, i) = "g" THEN i + 1
  ELSE 0

\* One attempt of packetRegexp anchored at position i.  Every class is
\* followed by a character outside it, so the greedy match is the only one.
\* item[1], item[2], item[3], item[5] are the submatches handleMessage reads;
\* stop is the position after the match.
MatchAt(s, i) ==
  LET nameEnd == RunEnd(s, i, NameChars)
      valStart == nameEnd + 1
      numStart == IF CharAt(s, valStart) = "-" THEN valStart + 1 ELSE valStart
      numEnd == RunEnd(s, numStart, NumChars)
      typeStart == numEnd + 1
      typeEnd == TypeEnd(s, typeStart)
      rateStart == typeEnd + 2
      rateEnd == RunEnd(s, rateStart, NumChars)
      hasRate == /\ CharAt(s, typeEnd) = "|"
                 /\ CharAt(s, typeEnd + 1) = "@"
                 /\ rateEnd > rateStart
  IN  IF /\ nameEnd > i
         /\ CharAt(s, nameEnd) = ":"
         /\ numEnd > numStart
         /\ CharAt(s, numEnd) = "|"
         /\ typeEnd > 0
      THEN [ok |-> TRUE,
            item1 |-> SubSeq(s, i, nameEnd - 1),
            item2 |-> SubSeq(s, valStart, numEnd - 1),
            item3 |-> SubSeq(s, typeStart, typeEnd - 1),
            item5 |-> IF hasRate THEN SubSeq(s, rateStart, rateEnd - 1)
                      ELSE << >>,
            stop |-> IF hasRate THEN rateEnd ELSE typeEnd]
      ELSE [ok |-> FALSE]

\* packetRegexp.FindAllStringSubmatch(s, -1) from position i on: the
\* leftmost match, then the matches of what follows it
RECURSIVE FindAll(_, _)
FindAll(s, i) ==
  IF i > Len(s) THEN << >>
  ELSE LET m == MatchAt(s, i)
       IN  IF m.ok THEN <<m>> \o FindAll(s, m.stop)
           ELSE FindAll(s, i + 1)

(***************************************************************************)
(* strconv: decimal text to numbers.  The texts that reach the parsers are *)
(* submatches of packetRegexp, so they hold only digits, '.', and a        *)
(* leading '-' (and '+' is accepted as a sign, as strconv does).           *)
(***************************************************************************)
RECURSIVE DigitsVal(_)
DigitsVal(s) ==
  IF s = << >> THEN 0
  ELSE 10 * DigitsVal(SubSeq(s, 1, Len(s) - 1)) + DigitVal(s[Len(s)])

Pow10(k) == 10 ^ k

Pow2(k) == 2 ^ k

RECURSIVE Gcd(_, _)
Gcd(a, b) == IF b = 0 THEN a ELSE Gcd(b, a % b)

HasSign(s) == Len(s) > 0 /\ s[1] \in {"+", "-"}

Unsigned(s) == IF HasSign(s) THEN Tail(s) ELSE s

\* the decimal a text denotes: [ok, neg, num, den] with value num / den;
\* ok is FALSE on what strconv reports as a syntax error (no digit, a second
\* '.', any other character)
ReadDecimal(s) ==
  LET body == Unsigned(s)
      dots == {i \in 1..Len(body) : body[i] = "."}
      digs == SelectSeq(body, LAMBDA c : c \in Digits)
      ok == /\ \A i \in 1..Len(body) : body[i] \in NumChars
            /\ Cardinality(dots) <= 1
            /\ Len(digs) > 0
      frac == IF dots = {} THEN 0
              ELSE Len(body) - (CHOOSE i \in dots : TRUE)
  IN  IF ok
      THEN [ok |-> TRUE, neg |-> (HasSign(s) /\ s[1] = "-"),
            num |-> DigitsVal(digs), den |-> Pow10(frac)]
      ELSE [ok |-> FALSE, neg |-> FALSE, num |-> 0, den |-> 1]

\* strconv.Atoi: [ok, val]; val is 0 when the text is not an optionally
\* signed run of digits
Atoi(s) ==
  LET body == Unsigned(s)
      ok == Len(body) > 0 /\ \A i \in 1..Len(body) : body[i] \in Digits
  IN  IF ok
      THEN [ok |-> TRUE,
            val |-> IF HasSign(s) /\ s[1] = "-" THEN 0 - DigitsVal(body)
                    ELSE DigitsVal(body)]
      ELSE [ok |-> FALSE, val |-> 0]

(***************************************************************************)
(* float32 arithmetic (IEEE 754 binary32, round to nearest, ties to even). *)
(* A value is [k, s, m, e]: k is "fin", "inf" or "nan"; a finite one is    *)
(* s * m * 2^e with s in {1, -1} and m = 0 or 2^23 <= m < 2^24.  Exponents *)
(* are not clamped: the short decimals of the model stay far inside the    *)
(* normal range of binary32.                                               *)
(***************************************************************************)
F32Zero(s) == [k |-> "fin", s |-> s, m |-> 0, e |-> 0]

F32Inf(s) == [k |-> "inf", s |-> s, m |-> 0, e |-> 0]

F32NaN == [k |-> "nan", s |-> 1, m |-> 0, e |-> 0]

\* the quotient n / d of two positive integers to 25 significant bits:
\* [q, r, e] with 2^24 <= q < 2^25 and n / d = (q + r / d) * 2^e, 0 <= r < d
RECURSIVE LongDiv(_, _, _, _)
LongDiv(q, r, e, d) ==
  IF q >= Pow2(24) THEN [q |-> q, r |-> r, e |-> e]
  ELSE LET r2 == 2 * r
       IN  IF r2 >= d THEN LongDiv(2 * q + 1, r2 - d, e - 1, d)
           ELSE LongDiv(2 * q, r2, e - 1, d)

\* q shifted right until it has 25 significant bits; st records whether a
\* one was shifted out
RECURSIVE ShiftDown(_, _, _)
ShiftDown(q, e, st) ==
  IF q < Pow2(25) THEN [q |-> q, e |-> e, st |-> st]
  ELSE ShiftDown(q \div 2, e + 1, st \/ (q % 2 = 1))

\* rounding of a 25-bit q (24 bits and a guard bit) with a sticky flag
RoundEven(s, q, e, sticky) ==
  LET m0 == q \div 2
      up == (q % 2 = 1) /\ (sticky \/ m0 % 2 = 1)
      m1 == IF up THEN m0 + 1 ELSE m0
  IN  IF m1 = Pow2(24)
      THEN [k |-> "fin", s |-> s, m |-> Pow2(23), e |-> e + 2]
      ELSE [k |-> "fin", s |-> s, m |-> m1, e |-> e + 1]

\* the binary32 nearest to s * n / d, for integers n >= 0 and d > 0
F32Ratio(s, n, d) ==
  IF n = 0 THEN F32Zero(s)
  ELSE LET sh == ShiftDown(n \div d, 0, FALSE)
           ld == LongDiv(sh.q, n % d, sh.e, d)
       IN  IF sh.e > 0
           THEN RoundEven(s, sh.q, sh.e, sh.st \/ n % d # 0)
           ELSE RoundEven(s, ld.q, ld.e, ld.r # 0)

\* strconv.ParseFloat(s, 32): [ok, val]; val is 0 on a syntax error
ParseFloat32(s) ==
  LET d == ReadDecimal(s)
  IN  IF d.ok
      THEN [ok |-> TRUE,
            val |-> F32Ratio(IF d.neg THEN -1 ELSE 1, d.num, d.den)]
      ELSE [ok |-> FALSE, val |-> F32Zero(1)]

\* 1 / x in float32
F32Recip(x) ==
  IF x.k = "nan" THEN F32NaN
  ELSE IF x.k = "inf" THEN F32Zero(x.s)
  ELSE IF x.m = 0 THEN F32Inf(x.s)
  ELSE LET r == F32Ratio(x.s, 1, x.m)
       IN  [r EXCEPT !.e = r.e - x.e]

\* x * y in float32: the 48-bit product of the mantissas is formed in two
\* 24-bit halves hi and lo from 12-bit limbs, then rounded
F32Mul(x, y) ==
  LET s == x.s * y.s
      L == Pow2(12)
      H == Pow2(24)
      x1 == x.m \div L
      x0 == x.m % L
      y1 == y.m \div L
      y0 == y.m % L
      mid == x1 * y0 + x0 * y1
      lo1 == x0 * y0 + (mid % L) * L
      hi == x1 * y1 + mid \div L + lo1 \div H
      lo == lo1 % H
      big == hi >= Pow2(23)
      q == IF big THEN 2 * hi + lo \div Pow2(23)
           ELSE 4 * hi + lo \div Pow2(22)
      rest == IF big THEN lo % Pow2(23) ELSE lo % Pow2(22)
      e == x.e + y.e + (IF big THEN 23 ELSE 22)
  IN  IF x.k = "nan" \/ y.k = "nan" THEN F32NaN
      ELSE IF x.k = "inf" \/ y.k = "inf"
      THEN IF (x.k = "fin" /\ x.m = 0) \/ (y.k = "fin" /\ y.m = 0)
           THEN F32NaN ELSE F32Inf(s)
      ELSE IF x.m = 0 \/ y.m = 0 THEN F32Zero(s)
      ELSE RoundEven(s, q, e, rest # 0)

\* int(x) for a float32 x: the value truncated toward zero.  ok is FALSE
\* when x is infinite or not a number, where Go leaves the result to the
\* implementation.
F32ToInt(x) ==
  IF x.k # "fin" THEN [ok |-> FALSE, val |-> 0]
  ELSE IF x.m = 0 THEN [ok |-> TRUE, val |-> 0]
  ELSE IF x.e >= 0 THEN [ok |-> TRUE, val |-> x.s * x.m * Pow2(x.e)]
  ELSE IF x.e < -24 THEN [ok |-> TRUE, val |-> 0]
  ELSE [ok |-> TRUE, val |-> x.s * (x.m \div Pow2(0 - x.e))]

(***************************************************************************)
(* float64 values.  A value is the exact rational [n, d] with d > 0 in     *)
(* lowest terms, or NaN, written [n |-> 0, d |-> 0].  The timer workloads  *)
(* use integers and halves, whose sums float64 holds exactly; a quotient   *)
(* stands for the float64 nearest to it.                                   *)
(***************************************************************************)
NaN64 == [n |-> 0, d |-> 0]

Abs(x) == IF x < 0 THEN 0 - x ELSE x

Rat(n, d) ==
  IF d = 0 THEN NaN64
  ELSE LET g == Gcd(Abs(n), Abs(d))
           sg == IF d < 0 THEN -1 ELSE 1
       IN  [n |-> sg * (n \div g), d |-> sg * (d \div g)]

RatInt(x) == [n |-> x, d |-> 1]

RatAdd(x, y) == Rat(x.n * y.d + y.n * x.d, x.d * y.d)

RatLess(x, y) == x.n * y.d < y.n * x.d

\* strconv.ParseFloat(s, 64): [ok, val]; val is 0 on a syntax error
ParseFloat64(s) ==
  LET d == ReadDecimal(s)
  IN  IF d.ok
      THEN [ok |-> TRUE,
            val |-> Rat(IF d.neg THEN 0 - d.num ELSE d.num, d.den)]
      ELSE [ok |-> FALSE, val |-> RatInt(0)]

\* sort.Float64s: ascending order
RECURSIVE Insert(_, _)
Insert(x, s) ==
  IF s = << >> THEN <<x>>
  ELSE IF RatLess(s[1], x) THEN <<s[1]>> \o Insert(x, Tail(s))
  ELSE <<x>> \o s

RECURSIVE SortFloat64s(_)
SortFloat64s(s) ==
  IF s = << >> THEN << >> ELSE Insert(s[1], SortFloat64s(Tail(s)))

RECURSIVE SumFloat64s(_)
SumFloat64s(s) ==
  IF s = << >> THEN RatInt(0) ELSE RatAdd(s[1], SumFloat64s(Tail(s)))

\* Go's integer division truncates toward zero
GoDiv(a, b) ==
  IF (a >= 0) = (b > 0) THEN Abs(a) \div Abs(b)
  ELSE 0 - (Abs(a) \div Abs(b))

\* uint32(v) of an int v, as two 16-bit halves
Uint32(v) == [hi |-> (v \div 65536) % 65536, lo |-> v % 65536]

(***************************************************************************)
(* handleMessage: from a datagram to Packets.                              *)
(***************************************************************************)
\* the Packet handleMessage fills from one match of packetRegexp
PacketOf(item) ==
  LET value == IF item.item3 = <<"m", "s">> /\ ~ParseFloat32(item.item2).ok
               THEN <<"0">> ELSE item.item2
      rate == ParseFloat32(item.item5)
      sampleRate == IF rate.ok THEN rate.val ELSE F32Ratio(1, 1, 1)
  IN  [Bucket |-> item.item1, Value |-> value, Modifier |-> item.item3,
       Sampling |-> sampleRate]

\* the Packets handleMessage sends on In for the datagram buf, in order
Decode(buf) ==
  LET items == FindAll(Sanitize(buf), 1)
  IN  [i \in 1..Len(items) |-> PacketOf(items[i])]

\* int(float32(floatValue) * (1 / s.Sampling)) of the counter branch
CounterDelta(s) ==
  F32ToInt(F32Mul(ParseFloat32(s.Value).val, F32Recip(s.Sampling)))

(***************************************************************************)
(* Datagrams of the workloads, as udpListener reads them.                  *)
(***************************************************************************)
\* a:2|c
BufCounter ==
  <<"a", ":", "2", "|", "c">>

\* g:1|g
BufGauge ==
  <<"g", ":", "1", "|", "g">>

\* t:3|ms
BufTimer ==
  <<"t", ":", "3", "|", "m", "s">>

\* a:2|c \n t:3|ms
BufTwo ==
  <<"a", ":", "2", "|", "c", "\n", "t", ":", "3", "|", "m", "s">>

\* hello
BufNoise ==
  <<"h", "e", "l", "l", "o">>

\* temp:5|g
BufTemp5 ==
  <<"t", "e", "m", "p", ":", "5", "|", "g">>

\* temp:+3|g
BufTempPlus3 ==
  <<"t", "e", "m", "p", ":", "+", "3", "|", "g">>

\* temp:-1|g
BufTempMinus1 ==
  <<"t", "e", "m", "p", ":", "-", "1", "|", "g">>

\* temp:9|g
BufTemp9 ==
  <<"t", "e", "m", "p", ":", "9", "|", "g">>

\* hits:1|c|@0.1
BufHits ==
  <<"h", "i", "t", "s", ":", "1", "|", "c", "|", "@", "0", ".", "1">>

\* hits:1.5|c \n hits:17|c|@0.85
BufHitsMixed ==
  <<"h", "i", "t", "s", ":", "1", ".", "5", "|", "c", "\n",
    "h", "i", "t", "s", ":", "1", "7", "|", "c", "|", "@", "0", ".", "8",
    "5">>

\* t:5|ms \n t:1|ms \n t:9|ms \n t:3|ms
BufObservations ==
  <<"t", ":", "5", "|", "m", "s", "\n", "t", ":", "1", "|", "m", "s", "\n",
    "t", ":", "9", "|", "m", "s", "\n", "t", ":", "3", "|", "m", "s">>

\* g:1|g|@0
BufRateZero ==
  <<"g", ":", "1", "|", "g", "|", "@", "0">>

\* g:1|g|@0.0
BufRateZeroPoint ==
  <<"g", ":", "1", "|", "g", "|", "@", "0", ".", "0">>

\* g:1|g|@5
BufRateFive ==
  <<"g", ":", "1", "|", "g", "|", "@", "5">>

\* g:1|g|@1.2.3
BufRateDots ==
  <<"g", ":", "1", "|", "g", "|", "@", "1", ".", "2", ".", "3">>

\* a:2|c|@0.5
BufRateHalf ==
  <<"a", ":", "2", "|", "c", "|", "@", "0", ".", "5">>

\* a:2|c|@0.5
EncRated ==
  <<"a", ":", "2", "|", "c", "|", "@", "0", ".", "5">>

\* 5a:3|c
EncDigit ==
  <<"5", "a", ":", "3", "|", "c">>

\* valid encodings, the separators between them and an unmatched fragment
Encodings == {EncRated, EncDigit}

Separators == {<<"\n">>, <<" ">>}

Fragment == <<"x">>

\* datagrams of two encodings e1 and e2 and a separator, alone, with the
\* fragment between them, and with the fragment after them
Composites ==
  UNION {{[e1 |-> e1, e2 |-> e2, buf |-> e1 \o sep \o e2],
          [e1 |-> e1, e2 |-> e2,
           buf |-> e1 \o sep \o Fragment \o sep \o e2],
          [e1 |-> e1, e2 |-> e2,
           buf |-> e1 \o sep \o e2 \o sep \o Fragment]} :
           <<e1, e2, sep>> \in Encodings \X Encodings \X Separators}

\* temp:1|g \n temp:2|g
BufTempPair ==
  <<"t", "e", "m", "p", ":", "1", "|", "g", "\n", "t", "e", "m", "p", ":",
    "2", "|", "g">>

\* u:-5|g
BufOtherMinus5 ==
  <<"u", ":", "-", "5", "|", "g">>

\* temp:1.5|g
BufTempDecimal ==
  <<"t", "e", "m", "p", ":", "1", ".", "5", "|", "g">>

\* a:1.2.3|c
BufCounterDots ==
  <<"a", ":", "1", ".", "2", ".", "3", "|", "c">>

\* t:1.2.3|ms
BufTimerDots ==
  <<"t", ":", "1", ".", "2", ".", "3", "|", "m", "s">>

\* the workloads
Buffers == {BufCounter, BufGauge, BufTimer, BufTwo, BufNoise}

CounterBuffers == {BufHits, BufHitsMixed}

GaugeBuffers == {BufTemp5, BufTempPlus3, BufTempMinus1, BufTemp9}

TimerBuffers == {BufObservations}

DecodeBuffers == {c.buf : c \in Composites}

OrderBuffers == {BufTemp5, BufTempPair}

SignBuffers == {BufTemp5, BufTempMinus1, BufOtherMinus5}

MalformedBuffers ==
  {BufTemp5, BufTempDecimal, BufCounter, BufCounterDots, BufTimer,
   BufTimerDots}

LiveBuffers == {BufGauge, BufTimer}

RateBuffers ==
  {BufGauge, BufRateZero, BufRateZeroPoint, BufRateFive, BufRateDots,
   BufRateHalf}

\* Decode of every datagram of the workloads, computed once
Decoded ==
  [buf \in Buffers \cup CounterBuffers \cup GaugeBuffers \cup TimerBuffers
            \cup RateBuffers \cup DecodeBuffers \cup OrderBuffers
            \cup SignBuffers \cup MalformedBuffers
     |-> Decode(buf)]

(***************************************************************************)
(* The state.                                                              *)
(***************************************************************************)
VARIABLES
  In,                \* the channel In: the Packets sent and not yet received
  tasks,             \* per handleMessage goroutine, the Packets it has still to send
  counters,          \* map[string]int
  gauges,            \* map[string]int
  timers,            \* map[string][]float64
  running,           \* FALSE once the process has died of a panic
  graphiteAddress,   \* -graphite, "" when not given
  gangliaAddress,    \* -ganglia, "" when not given
  percentThreshold,  \* -percent-threshold
  out,               \* what the step emitted: NoFlush, or submit()'s output
  window,            \* history: the Packets applied since the last
                     \* submit(), as a bag (Packet -> how many times)
  gaugeLog           \* history: the gauge Packets among them, in order

vars ==
  <<In, tasks, counters, gauges, timers, running, graphiteAddress,
    gangliaAddress, percentThreshold, out, window, gaugeLog>>

\* -flush-interval, in seconds
flushInterval == 10

\* time.Second / 1e3 of the rate's divisor: 1e9 / 1e3
SecondOver1e3 == 1000000

NoFlush == [flushed |-> FALSE]

\* a map with key k set to v
MapPut(m, k, v) == [x \in DOMAIN m \cup {k} |-> IF x = k THEN v ELSE m[x]]

\* m[k] as Go reads it: the zero value zero when k is absent
MapGet(m, k, zero) == IF k \in DOMAIN m THEN m[k] ELSE zero

EmptyMap == [x \in {} |-> 0]

\* the number of Packets in the bag w
RECURSIVE BagSize(_)
BagSize(w) ==
  IF DOMAIN w = {} THEN 0
  ELSE LET p == CHOOSE q \in DOMAIN w : TRUE
       IN  w[p] + BagSize([q \in DOMAIN w \ {p} |-> w[q]])

(***************************************************************************)
(* udpListener and handleMessage.                                          *)
(***************************************************************************)
\* udpListener reads the datagram buf and starts handleMessage on it; a
\* goroutine with nothing to send ends at once.  maxTasks bounds the
\* goroutines alive at a time.
Receive(buf, maxTasks) ==
  /\ running
  /\ Len(tasks) < maxTasks
  /\ LET packets == Decoded[buf]
     IN  tasks' = IF packets = << >> THEN tasks ELSE Append(tasks, packets)
  /\ out' = NoFlush
  /\ UNCHANGED <<In, counters, gauges, timers, running, graphiteAddress,
                 gangliaAddress, percentThreshold, window, gaugeLog>>

\* tasks without its i-th goroutine's first Packet; a goroutine that has
\* sent its last Packet is gone
AfterSend(i) ==
  LET rest == Tail(tasks[i])
  IN  IF rest = << >>
      THEN SubSeq(tasks, 1, i - 1) \o SubSeq(tasks, i + 1, Len(tasks))
      ELSE [tasks EXCEPT ![i] = rest]

\* mutant of Send: the goroutine also counts the Packet in the counters map
\* itself
SendApplying(i, cap) ==
  /\ running
  /\ i \in 1..Len(tasks)
  /\ Len(In) < cap
  /\ In' = Append(In, Head(tasks[i]))
  /\ tasks' = AfterSend(i)
  /\ counters' = MapPut(counters, Head(tasks[i]).Bucket,
                        MapGet(counters, Head(tasks[i]).Bucket, 0) + 1)
  /\ out' = NoFlush
  /\ UNCHANGED <<gauges, timers, running, graphiteAddress,
                 gangliaAddress, percentThreshold, window, gaugeLog>>

\* mutant of Send: the Packet is put at the front of the channel
SendFront(i, cap) ==
  /\ running
  /\ i \in 1..Len(tasks)
  /\ Len(In) < cap
  /\ In' = <<Head(tasks[i])>> \o In
  /\ tasks' = AfterSend(i)
  /\ out' = NoFlush
  /\ UNCHANGED <<counters, gauges, timers, running, graphiteAddress,
                 gangliaAddress, percentThreshold, window, gaugeLog>>

\* mutant of Send: a send that does not block, dropping the Packet when the
\* channel is full
SendNonBlocking(i, cap) ==
  /\ running
  /\ i \in 1..Len(tasks)
  /\ In' = IF Len(In) < cap THEN Append(In, Head(tasks[i])) ELSE In
  /\ tasks' = AfterSend(i)
  /\ out' = NoFlush
  /\ UNCHANGED <<counters, gauges, timers, running, graphiteAddress,
                 gangliaAddress, percentThreshold, window, gaugeLog>>

\* In <- packet: blocks while the channel, of capacity cap, is full
Send(i, cap) ==
  /\ running
  /\ i \in 1..Len(tasks)
  /\ Len(In) < cap
  /\ In' = Append(In, Head(tasks[i]))
  /\ tasks' = AfterSend(i)
  /\ out' = NoFlush
  /\ UNCHANGED <<counters, gauges, timers, running, graphiteAddress,
                 gangliaAddress, percentThreshold, window, gaugeLog>>

(***************************************************************************)
(* monitor: case s := <-In.                                                *)
(***************************************************************************)
\* the "ms" branch
ApplyTimer(s) ==
  LET floatValue == ParseFloat64(s.Value).val
  IN  MapPut(timers, s.Bucket,
             Append(MapGet(timers, s.Bucket, << >>), floatValue))

\* mutant of ApplyGauge: the sign is not looked at and every value replaces
\* the gauge
ApplyGaugeSet(s) == MapPut(gauges, s.Bucket, Atoi(s.Value).val)

\* the "g" branch
ApplyGauge(s) ==
  LET old == MapGet(gauges, s.Bucket, 0)
  IN  IF Len(s.Value) > 0 /\ s.Value[1] = "+"
      THEN MapPut(gauges, s.Bucket, old + Atoi(Tail(s.Value)).val)
      ELSE IF Len(s.Value) > 0 /\ s.Value[1] = "-"
      THEN MapPut(gauges, s.Bucket, old - Atoi(Tail(s.Value)).val)
      ELSE MapPut(gauges, s.Bucket, Atoi(s.Value).val)

\* mutant of ApplyCounter: the increment replaces the count
ApplyCounterReplace(s, delta) == MapPut(counters, s.Bucket, delta)

\* the counter branch, delta being CounterDelta(s).val
ApplyCounter(s, delta) ==
  MapPut(counters, s.Bucket, MapGet(counters, s.Bucket, 0) + delta)

\* monitor receives one Packet and applies it.  maxWindow bounds the
\* Packets applied between two flushes and maxAbs the gauges; a counter
\* Packet whose conversion to int Go leaves to the implementation is not
\* among the workloads.
Apply(maxWindow, maxAbs) ==
  /\ running
  /\ In # << >>
  /\ BagSize(window) < maxWindow
  /\ LET s == Head(In)
     IN  /\ IF s.Modifier = <<"m", "s">>
            THEN /\ timers' = ApplyTimer(s)
                 /\ UNCHANGED <<gauges, counters, gaugeLog>>
            ELSE IF s.Modifier = <<"g">>
            THEN /\ gauges' = ApplyGauge(s)
                 /\ Abs(gauges'[s.Bucket]) <= maxAbs
                 /\ gaugeLog' = Append(gaugeLog, s)
                 /\ UNCHANGED <<timers, counters>>
            ELSE LET delta == CounterDelta(s)
                 IN  /\ delta.ok
                     /\ counters' = ApplyCounter(s, delta.val)
                     /\ UNCHANGED <<timers, gauges, gaugeLog>>
         /\ window' = MapPut(window, s, MapGet(window, s, 0) + 1)
  /\ In' = Tail(In)
  /\ out' = NoFlush
  /\ UNCHANGED <<tasks, running, graphiteAddress, gangliaAddress,
                 percentThreshold>>

(***************************************************************************)
(* submit(): what one flush emits.  The Graphite buffer is a set of lines  *)
(* (Go ranges over the maps in no fixed order) followed by the numStats    *)
(* line; every line of a cycle ends with the same timestamp now, which is  *)
(* left out.  A line is the prefix flag it starts with, the bucket, the    *)
(* field suffix, and the Fprintf verb with the type and value of its       *)
(* argument; a Ganglia metric is the name's fixed part, the bucket, the    *)
(* suffix and the value SendMetric is given.                               *)
(***************************************************************************)
Line(pfx, bucket, field, verb, type, val) ==
  [pfx |-> pfx, bucket |-> bucket, field |-> field, verb |-> verb,
   type |-> type, val |-> val]

\* gmSubmitFloat(name, value): m_type VALUE_DOUBLE
GmFloat(pre, bucket, field, value) ==
  [pre |-> pre, bucket |-> bucket, field |-> field, type |-> "double",
   f |-> value, u |-> Uint32(0), grp |-> "statsd",
   ival |-> Uint32(flushInterval * 2)]

\* gmSubmit(name, value): m_type VALUE_UNSIGNED_INT
GmUint(pre, bucket, field, value) ==
  [pre |-> pre, bucket |-> bucket, field |-> field, type |-> "uint32",
   f |-> RatInt(0), u |-> value, grp |-> "statsd",
   ival |-> Uint32(flushInterval * 2)]

\* value := float64(c) / float64((float64(*flushInterval)*float64(time.Second))/float64(1e3))
CounterRate(c) == Rat(c, flushInterval * SecondOver1e3)

\* the two lines of the counter bucket s holding c
CounterLines(s, c) ==
  {Line("statsPrefix", s, "", "d", "float64", CounterRate(c)),
   Line("countersPrefix", s, "", "d", "int", RatInt(c))}

CounterGm(s, c) ==
  {GmFloat("stats_", s, "", CounterRate(c)),
   GmUint("stats_counts_", s, "", Uint32(c))}

\* the line of the gauge bucket i holding g
GaugeLines(i, g) == {Line("gaugesPrefix", i, "", "d", "int64", RatInt(g))}

GaugeGm(i, g) == {GmUint("stats_", i, "", Uint32(g))}

\* mutant of TimerStats: the threshold index computed as a true percentile,
\* ((100 - P) * count) / 100, the mean and the upper bound taken over the
\* values kept
TimerStatsPercentile(t, P) ==
  LET sorted == SortFloat64s(t)
      count == Len(t)
      numInThreshold == count - GoDiv((100 - P) * count, 100)
      sum == SumFloat64s(SubSeq(sorted, 1, numInThreshold))
  IN  IF count = 0
      THEN [mean |-> RatInt(0), max |-> RatInt(0),
            maxAtThreshold |-> RatInt(0), min |-> RatInt(0), count |-> 0]
      ELSE IF count = 1 \/ numInThreshold = 0
      THEN [mean |-> sorted[1], max |-> sorted[count],
            maxAtThreshold |-> sorted[count], min |-> sorted[1],
            count |-> count]
      ELSE [mean |-> Rat(sum.n, sum.d * numInThreshold),
            max |-> sorted[count], maxAtThreshold |-> sorted[numInThreshold],
            min |-> sorted[1], count |-> count]

\* the five statistics of a timer bucket's observations t under the
\* threshold P; count is len(t)
TimerStats(t, P) ==
  LET sorted == SortFloat64s(t)
      count == Len(t)
      min == sorted[1]
      max == sorted[count]
      thresholdIndex == GoDiv(100 - P, 100) * count
      numInThreshold == count - thresholdIndex
      values == SubSeq(sorted, 1, numInThreshold)
      sum == SumFloat64s(values)
      mean == IF count > 1
              THEN IF numInThreshold = 0 THEN NaN64
                   ELSE Rat(sum.n, sum.d * numInThreshold)
              ELSE min
  IN  IF count = 0
      THEN [mean |-> RatInt(0), max |-> RatInt(0),
            maxAtThreshold |-> RatInt(0), min |-> RatInt(0), count |-> 0]
      ELSE [mean |-> mean, max |-> max, maxAtThreshold |-> max,
            min |-> min, count |-> count]

\* the five lines of the timer bucket u holding t
TimerLines(u, t, P) ==
  LET st == TimerStats(t, P)
  IN  {Line("timersPrefix", u, "mean", "f", "float64", st.mean),
       Line("timersPrefix", u, "upper", "f", "float64", st.max),
       Line("timersPrefix", u, "upper_P", "f", "float64", st.maxAtThreshold),
       Line("timersPrefix", u, "lower", "f", "float64", st.min),
       Line("timersPrefix", u, "count", "d", "int", RatInt(st.count))}

TimerGm(u, t, P) ==
  LET st == TimerStats(t, P)
  IN  {GmFloat("stats_timers_", u, "_mean", st.mean),
       GmFloat("stats_timers_", u, "_upper", st.max),
       GmFloat("stats_timers_", u, "_upper_P", st.maxAtThreshold),
       GmFloat("stats_timers_", u, "_lower", st.min),
       GmUint("stats_timers_", u, "_count", Uint32(st.count))}

\* the lines the three loops of submit() write to the buffer
SubmitLines ==
  UNION ({CounterLines(s, counters[s]) : s \in DOMAIN counters}
         \cup {GaugeLines(i, gauges[i]) : i \in DOMAIN gauges}
         \cup {TimerLines(u, timers[u], percentThreshold) :
                 u \in DOMAIN timers})

\* the metrics the three loops hand to SendMetric when Ganglia is in use
SubmitGm ==
  UNION ({CounterGm(s, counters[s]) : s \in DOMAIN counters}
         \cup {GaugeGm(i, gauges[i]) : i \in DOMAIN gauges}
         \cup {TimerGm(u, timers[u], percentThreshold) :
                 u \in DOMAIN timers})

\* mutants of NumStats: idle timer buckets not counted; data points counted
NumStatsActiveOnly ==
  Cardinality(DOMAIN counters) + Cardinality(DOMAIN gauges)
    + Cardinality({u \in DOMAIN timers : timers[u] # << >>})

NumStatsPoints ==
  2 * Cardinality(DOMAIN counters) + Cardinality(DOMAIN gauges)
    + 5 * Cardinality(DOMAIN timers)

\* numStats: one per iteration of each of the three loops
NumStats ==
  Cardinality(DOMAIN counters) + Cardinality(DOMAIN gauges)
    + Cardinality(DOMAIN timers)

\* mutants of ResetCounters: the reset left out; the buckets deleted
ResetCountersSkipped == counters

ResetCountersDeleted == EmptyMap

\* counters[s] = 0 for every bucket
ResetCounters == [s \in DOMAIN counters |-> 0]

\* mutants of ResetTimers: the buckets deleted; the observations kept
ResetTimersDeleted == EmptyMap

ResetTimersSkipped == timers

\* timers[u] = z, the nil slice, for every bucket
ResetTimers == [u \in DOMAIN timers |-> << >>]

\* what became of the Graphite buffer: "off" without -graphite, "dropped"
\* when net.Dial failed (clientGraphite is nil), else the outcome of Write,
\* whose error submit() ignores
GraphiteOutcomes ==
  IF graphiteAddress = "" THEN {"off"}
  ELSE {"dropped", "written", "writeFailed"}

\* net.ResolveIPAddr of the Ganglia servers: whether it can fail
ResolveOutcomes == IF gangliaAddress = "" THEN {TRUE} ELSE {TRUE, FALSE}

\* monitor: case <-t.C, the whole of submit().  When a Ganglia server does
\* not resolve, submit() panics before it has touched the maps, and the
\* panic ends the process.
Tick ==
  /\ running
  /\ \E graphite \in GraphiteOutcomes, resolved \in ResolveOutcomes :
       IF ~resolved
       THEN /\ running' = FALSE
            /\ out' = NoFlush
            /\ UNCHANGED <<counters, timers, window, gaugeLog>>
       ELSE /\ out' = [flushed |-> TRUE,
                       lines |-> SubmitLines,
                       numStats |-> NumStats,
                       gm |-> IF gangliaAddress # "" THEN
                                SubmitGm \cup
                                  {GmUint("statsd_numStats", << >>, "",
                                          Uint32(NumStats))}
                              ELSE {},
                       graphite |-> graphite]
            /\ counters' = ResetCounters
            /\ timers' = ResetTimers
            /\ window' = EmptyMap
            /\ gaugeLog' = << >>
            /\ UNCHANGED running
  /\ UNCHANGED <<In, tasks, gauges, graphiteAddress, gangliaAddress,
                 percentThreshold>>

(***************************************************************************)
(* The specifications: the daemon under four workloads.                    *)
(***************************************************************************)
\* the state after flag.Parse() and the package's var block, before the
\* first datagram and the first tick
Start(graphite, ganglia, percent) ==
  /\ In = << >>
  /\ tasks = << >>
  /\ counters = EmptyMap
  /\ gauges = EmptyMap
  /\ timers = EmptyMap
  /\ running = TRUE
  /\ graphiteAddress = graphite
  /\ gangliaAddress = ganglia
  /\ percentThreshold = percent
  /\ out = NoFlush
  /\ window = EmptyMap
  /\ gaugeLog = << >>

\* the steps of the three kinds of goroutine
Step(buffers, maxWindow, maxTasks, cap) ==
  \/ \E buf \in buffers : Receive(buf, maxTasks)
  \/ \E i \in 1..maxTasks : Send(i, cap)
  \/ Apply(maxWindow, MaxAbs)
  \/ Tick

\* counters, gauges and timers together, with either sink on or off
Init ==
  \E graphite \in {"", "localhost:2003"}, ganglia \in {"", "gmond"} :
    Start(graphite, ganglia, 90)

Next == Step(Buffers, MaxWindow, MaxTasks, QueueCap)

Spec == Init /\ [][Next]_vars

\* gauges and timers under the scheduling the runtime gives: a goroutine
\* that can send does send, and select, which picks at random among its
\* ready cases, leaves neither case unchosen forever
InitLive ==
  \E ganglia \in {"", "gmond"} : Start("localhost:2003", ganglia, 90)

NextLive == Step(LiveBuffers, MaxWindow, MaxTasks, QueueCap)

Fairness ==
  /\ WF_vars(\E i \in 1..MaxTasks : Send(i, QueueCap))
  /\ SF_vars(Apply(MaxWindow, MaxAbs))
  /\ SF_vars(Tick)

SpecLive == InitLive /\ [][NextLive]_vars /\ Fairness

\* the counter workload
InitCounter ==
  \E ganglia \in {"", "gmond"} : Start("localhost:2003", ganglia, 90)

NextCounter == Step(CounterBuffers, MaxRun, MaxTasks, QueueCap)

SpecCounter == InitCounter /\ [][NextCounter]_vars

\* the gauge workload
InitGauge == Start("localhost:2003", "", 90)

NextGauge == Step(GaugeBuffers, MaxTrace, MaxTasks, QueueCap)

SpecGauge == InitGauge /\ [][NextGauge]_vars

\* the timer workload, under several thresholds
PercentThresholds == {0, 1, 90, 99}

InitTimer ==
  \E percent \in PercentThresholds : Start("localhost:2003", "", percent)

NextTimer == Step(TimerBuffers, MaxObs, MaxTasks, QueueCap)

SpecTimer == InitTimer /\ [][NextTimer]_vars

\* the sample rate workload
InitRate == Start("localhost:2003", "", 90)

NextRate == Step(RateBuffers, MaxWindow, MaxTasks, QueueCap)

SpecRate == InitRate /\ [][NextRate]_vars

\* the workload of datagrams of several samples
InitDecode == Start("localhost:2003", "", 90)

NextDecode == Step(DecodeBuffers, MaxWindow, MaxTasks, QueueCap)

SpecDecode == InitDecode /\ [][NextDecode]_vars

\* signed and unsigned gauge samples for two buckets
InitSign == Start("localhost:2003", "", 90)

NextSign == Step(SignBuffers, MaxWindow, MaxTasks, QueueCap)

SpecSign == InitSign /\ [][NextSign]_vars

\* samples whose value is not a number, among samples whose value is
InitMalformed == Start("localhost:2003", "", 90)

NextMalformed == Step(MalformedBuffers, MaxWindow, MaxTasks, QueueCap)

SpecMalformed == InitMalformed /\ [][NextMalformed]_vars

\* several goroutines sending on a channel of several slots
InitOrder ==
  \E ganglia \in {"", "gmond"} : Start("localhost:2003", ganglia, 90)

NextOrder == Step(OrderBuffers, MaxWindow, OrderTasks, OrderCap)

SpecOrder == InitOrder /\ [][NextOrder]_vars

(***************************************************************************)
(* Properties.                                                             *)
(***************************************************************************)
\* the counter Packets of bucket b in the bag w
CounterPackets(w, b) ==
  {p \in DOMAIN w : p.Bucket = b /\ p.Modifier = <<"c">>}

\* the timer Packets of bucket u in the bag w
TimerPackets(w, u) ==
  {p \in DOMAIN w : p.Bucket = u /\ p.Modifier = <<"m", "s">>}

\* the lines of a flush that start with the prefix pfx, and those of them
\* of the bucket b
LinesOf(o, pfx) == {l \in o.lines : l.pfx = pfx}

BucketLines(o, pfx, b) == {l \in o.lines : l.pfx = pfx /\ l.bucket = b}

BucketsOf(o, pfx) == {l.bucket : l \in LinesOf(o, pfx)}

\* C1: after any flush every counter bucket holds 0, every timer bucket's
\* list is empty, and every gauge bucket holds the value it held before the
\* flush
C1_FlushResets ==
  [][out'.flushed =>
       /\ \A s \in DOMAIN counters' : counters'[s] = 0
       /\ \A u \in DOMAIN timers' : timers'[u] = << >>
       /\ gauges' = gauges]_vars

\* a flush that reported a nonzero count and a nonzero number of
\* observations, with a nonzero gauge in the store
C1_Witness ==
  /\ out.flushed
  /\ \E l \in LinesOf(out, "countersPrefix") : l.val.n # 0
  /\ \E l \in LinesOf(out, "timersPrefix") : l.field = "count" /\ l.val.n # 0
  /\ \E i \in DOMAIN gauges : gauges[i] # 0

\* the matches of packetRegexp in the datagrams of the counter workload
CounterItems ==
  UNION {{FindAll(Sanitize(buf), 1)[i] : i \in 1..Len(Decoded[buf])} :
           buf \in CounterBuffers}

\* value / sampleRate of the sample the Packet p was decoded from, as the
\* decimals of its encoding denote them (sampleRate 1 when it has none)
SampleQuotient(p) ==
  LET item == CHOOSE it \in CounterItems : PacketOf(it) = p
      v == ReadDecimal(item.item2)
      r == ReadDecimal(item.item5)
      sg == IF v.neg THEN -1 ELSE 1
  IN  IF r.ok THEN Rat(sg * v.num * r.den, v.den * r.num)
      ELSE Rat(sg * v.num, v.den)

\* the sum of value_i / sampleRate_i over the Packets ps of the bag w
RECURSIVE QuotientSum(_, _)
QuotientSum(w, ps) ==
  IF ps = {} THEN RatInt(0)
  ELSE LET p == CHOOSE q \in ps : TRUE
           x == SampleQuotient(p)
       IN  RatAdd(Rat(w[p] * x.n, x.d), QuotientSum(w, ps \ {p}))

\* C2: the count a counter bucket has accumulated since the last flush is
\* the sum of value_i / sampleRate_i over the samples applied to it, and ten
\* samples of hits:1|c|@0.1 give 100
C2_CounterSum ==
  /\ \A b \in DOMAIN counters :
       RatInt(counters[b]) = QuotientSum(window, CounterPackets(window, b))
  /\ window = [p \in {Decoded[BufHits][1]} |-> 10]
       => counters[Decoded[BufHits][1].Bucket] = 100

\* C3: "temp:5|g", "temp:+3|g", "temp:-1|g" applied in this order leave
\* the gauge temp at 7, and "temp:9|g" applied next leaves it at 9
C3_GaugeScenario ==
  LET n == Len(gaugeLog)
      temp == Decoded[BufTemp5][1].Bucket
      three == <<Decoded[BufTemp5][1], Decoded[BufTempPlus3][1],
                 Decoded[BufTempMinus1][1]>>
  IN  /\ (n >= 3 /\ SubSeq(gaugeLog, n - 2, n) = three) => gauges[temp] = 7
      /\ (n >= 4 /\ SubSeq(gaugeLog, n - 3, n)
                      = three \o <<Decoded[BufTemp9][1]>>)
           => gauges[temp] = 9

\* the buckets a flush reports a rate or a raw count for
CounterBucketsOf(o) ==
  BucketsOf(o, "statsPrefix") \cup BucketsOf(o, "countersPrefix")

\* C4 as stated: a flush reports a counter bucket only if a counter sample
\* for it was applied since the previous flush
C4_OnlyActiveReported ==
  [][out'.flushed =>
       \A b \in CounterBucketsOf(out') : CounterPackets(window, b) # {}]_vars

\* C4: a counter bucket stays in the store once created, every flush
\* reports every counter bucket of the store, and a bucket with no sample
\* in the window is reported with rate 0 and raw count 0
C4_IdleReportedZero ==
  [][/\ DOMAIN counters \subseteq DOMAIN counters'
     /\ out'.flushed =>
          /\ BucketsOf(out', "statsPrefix") = DOMAIN counters
          /\ BucketsOf(out', "countersPrefix") = DOMAIN counters
          /\ \A b \in DOMAIN counters :
               CounterPackets(window, b) = {} =>
                 \A l \in BucketLines(out', "statsPrefix", b)
                        \cup BucketLines(out', "countersPrefix", b) :
                   l.val = RatInt(0)]_vars

\* a flush that reported a raw count of 0 for a counter bucket
C4_Witness ==
  /\ out.flushed
  /\ \E l \in LinesOf(out, "countersPrefix") : l.val = RatInt(0)
  /\ \E l \in LinesOf(out, "statsPrefix") : l.val = RatInt(0)

\* C5: a timer bucket stays in the store once created, and a flush in
\* whose window it received no observation emits exactly the five fields
\* mean, upper, upper_P, lower and count for it, each with value zero
C5_IdleTimerZeros ==
  [][/\ DOMAIN timers \subseteq DOMAIN timers'
     /\ out'.flushed =>
          \A u \in DOMAIN timers :
            TimerPackets(window, u) = {} =>
              LET ls == BucketLines(out', "timersPrefix", u)
              IN  /\ Cardinality(ls) = 5
                  /\ {l.field : l \in ls}
                       = {"mean", "upper", "upper_P", "lower", "count"}
                  /\ \A l \in ls : l.val = RatInt(0)]_vars

\* a flush that reported zero observations for a timer bucket
C5_Witness ==
  /\ out.flushed
  /\ \E l \in LinesOf(out, "timersPrefix") :
       l.field = "count" /\ l.val = RatInt(0)
  /\ \E l \in LinesOf(out, "timersPrefix") :
       l.field = "mean" /\ l.val = RatInt(0)

\* the value of the field f that the flush o reports for the timer bucket u
FieldOf(o, u, f) ==
  (CHOOSE l \in BucketLines(o, "timersPrefix", u) : l.field = f).val

\* C6: for a threshold P in 1..99 and a timer bucket holding n >= 1
\* observations, the flush reports lower = the minimum, upper = the
\* maximum, count = n, mean = the mean of all n, and upper_P = the maximum
C6_TimerStats ==
  [][(out'.flushed /\ percentThreshold \in 1..99) =>
       \A u \in DOMAIN timers :
         Len(timers[u]) >= 1 =>
           LET t == timers[u]
               n == Len(t)
               obs == {t[i] : i \in 1..n}
               lo == CHOOSE x \in obs : \A y \in obs : ~RatLess(y, x)
               hi == CHOOSE x \in obs : \A y \in obs : ~RatLess(x, y)
               sum == SumFloat64s(t)
               mean == FieldOf(out', u, "mean")
           IN  /\ FieldOf(out', u, "lower") = lo
               /\ FieldOf(out', u, "upper") = hi
               /\ FieldOf(out', u, "count") = RatInt(n)
               /\ mean.d # 0
               /\ mean.n * sum.d * n = sum.n * mean.d
               /\ FieldOf(out', u, "upper_P") = hi]_vars

\* the flush of the observations 5, 1, 9, 3 under a threshold in 1..99
C6_Witness ==
  /\ out.flushed
  /\ percentThreshold \in 1..99
  /\ \E u \in BucketsOf(out, "timersPrefix") :
       /\ FieldOf(out, u, "lower") = RatInt(1)
       /\ FieldOf(out, u, "upper") = RatInt(9)
       /\ FieldOf(out, u, "upper_P") = RatInt(9)
       /\ FieldOf(out, u, "count") = RatInt(4)
       /\ FieldOf(out, u, "mean") = [n |-> 9, d |-> 2]

\* C7: the numStats of a flush is the number of counter buckets plus the
\* number of gauge buckets plus the number of timer buckets it reports,
\* timer buckets without observations included
C7_NumStatsBuckets ==
  out.flushed =>
    out.numStats = Cardinality(BucketsOf(out, "countersPrefix"))
                     + Cardinality(BucketsOf(out, "gaugesPrefix"))
                     + Cardinality(BucketsOf(out, "timersPrefix"))

\* a flush of one counter, one gauge and one timer bucket, the timer
\* bucket without observations
C7_Witness ==
  /\ out.flushed
  /\ out.numStats = 3
  /\ Cardinality(BucketsOf(out, "countersPrefix")) = 1
  /\ Cardinality(BucketsOf(out, "gaugesPrefix")) = 1
  /\ \E l \in LinesOf(out, "timersPrefix") :
       l.field = "count" /\ l.val = RatInt(0)

\* C8 as stated: the numStats of a flush is the number of data points the
\* flush reports
C8_NumStatsDataPoints ==
  out.flushed => out.numStats = Cardinality(out.lines)

\* C8: the numStats of a flush is the number of buckets, not of data
\* points: the flush reports numStats data points, one more for every
\* counter bucket and four more for every timer bucket
C8_NumStatsPerBucket ==
  out.flushed =>
    Cardinality(out.lines)
      = out.numStats + Cardinality(BucketsOf(out, "countersPrefix"))
          + 4 * Cardinality(BucketsOf(out, "timersPrefix"))

\* a flush of eight data points whose numStats is 3
C8_Witness ==
  out.flushed /\ Cardinality(out.lines) = 8 /\ out.numStats = 3

\* C9: no failure of a backend during a flush ends the process
C9_NeverFatal == running

\* the sum of the counter branch's increments over the Packets ps of the
\* bag w
RECURSIVE DeltaSum(_, _)
DeltaSum(w, ps) ==
  IF ps = {} THEN 0
  ELSE LET p == CHOOSE q \in ps : TRUE
       IN  w[p] * CounterDelta(p).val + DeltaSum(w, ps \ {p})

\* the number of Packets among ps in the bag w
RECURSIVE CountIn(_, _)
CountIn(w, ps) ==
  IF ps = {} THEN 0
  ELSE LET p == CHOOSE q \in ps : TRUE IN w[p] + CountIn(w, ps \ {p})

\* C10: a flush whose connection to the line sink failed leaves every
\* counter at 0, every timer list empty and the gauges as they were, and
\* every flush reports for a bucket the counts and the number of
\* observations applied since the flush before it and nothing older
C10_DroppedNotCarried ==
  [][out'.flushed =>
       /\ out'.graphite = "dropped" =>
            /\ \A s \in DOMAIN counters' : counters'[s] = 0
            /\ \A u \in DOMAIN timers' : timers'[u] = << >>
            /\ DOMAIN counters' = DOMAIN counters
            /\ DOMAIN timers' = DOMAIN timers
            /\ gauges' = gauges
       /\ \A l \in LinesOf(out', "countersPrefix") :
            l.val = RatInt(DeltaSum(window, CounterPackets(window, l.bucket)))
       /\ \A l \in LinesOf(out', "timersPrefix") :
            l.field = "count" =>
              l.val = RatInt(CountIn(window, TimerPackets(window, l.bucket)))
    ]_vars

\* a flush whose connection failed, with a nonzero count and a nonzero
\* number of observations to report
C10_Witness ==
  /\ out.flushed
  /\ out.graphite = "dropped"
  /\ \E l \in LinesOf(out, "countersPrefix") : l.val.n # 0
  /\ \E l \in LinesOf(out, "timersPrefix") : l.field = "count" /\ l.val.n # 0
  /\ \A s \in DOMAIN counters : counters[s] = 0
  /\ \A u \in DOMAIN timers : timers[u] = << >>

\* the matches of packetRegexp in the datagrams of the sample rate workload
RateItems ==
  UNION {{FindAll(Sanitize(buf), 1)[i] : i \in 1..Len(Decoded[buf])} :
           buf \in RateBuffers}

\* C11: every Packet on the channel has a strictly positive Sampling, and
\* its Sampling is 1.0 when the match has no sample rate or one that does
\* not parse
C11_SampleRate ==
  \A i \in 1..Len(In) :
    LET r == In[i].Sampling
    IN  /\ r.k = "fin" /\ r.s = 1 /\ r.m > 0
        /\ \A it \in RateItems :
             (PacketOf(it) = In[i] /\ ~ReadDecimal(it.item5).ok)
               => r = F32Ratio(1, 1, 1)

\* the samples the two encodings of the datagram c decode to when each is
\* decoded alone, in order
AloneDecoded == [c \in Composites |-> Decode(c.e1) \o Decode(c.e2)]

\* C12: a handleMessage goroutine started on a datagram of two valid
\* encodings and a separator, with or without an unmatched fragment, holds
\* exactly the samples the two encodings decode to alone, in that order
C12_IndependentMatches ==
  \A i \in DOMAIN tasks :
    \A c \in Composites :
      tasks[i] = Decoded[c.buf] => tasks[i] = AloneDecoded[c]

\* the Packets the goroutines ts have still to send
RECURSIVE Held(_)
Held(ts) == IF ts = << >> THEN 0 ELSE Len(Head(ts)) + Held(Tail(ts))

\* C13: the channel never holds more Packets than its capacity; a Packet
\* enters it only when there is room, from a goroutine that then holds one
\* Packet less; a Packet leaves it only from the front and is applied once;
\* and no other step takes a Packet from a goroutine or from the channel
C13_QueueBackpressure ==
  [][/\ Len(In') <= OrderCap
     /\ Len(In') > Len(In) =>
          /\ Len(In) < OrderCap
          /\ \E i \in DOMAIN tasks : In' = Append(In, Head(tasks[i]))
          /\ Held(tasks') = Held(tasks) - 1
          /\ window' = window
     /\ Len(In') < Len(In) =>
          /\ In' = Tail(In)
          /\ tasks' = tasks
          /\ window' = MapPut(window, Head(In), MapGet(window, Head(In), 0) + 1)
     /\ Len(In') = Len(In) =>
          /\ In' = In
          /\ Held(tasks') >= Held(tasks)
          /\ out'.flushed \/ window' = window]_vars

\* the channel is full and a goroutine is blocked on its send, a sample of
\* the window already applied
C13_Witness ==
  /\ Len(In) = OrderCap
  /\ tasks # << >>
  /\ BagSize(window) > 0

\* C14: the three maps change only in a step of monitor, which either
\* takes the Packet at the front of the channel or flushes, never in a step
\* of a handleMessage goroutine; and a flush takes no Packet from the
\* channel, reports the counts and observations the store held when it
\* began, and leaves the store reset
C14_SingleWriter ==
  [][/\ (counters' # counters \/ gauges' # gauges \/ timers' # timers) =>
          /\ tasks' = tasks
          /\ \/ In # << >> /\ In' = Tail(In) /\ ~out'.flushed
             \/ In' = In /\ out'.flushed
     /\ out'.flushed =>
          /\ In' = In
          /\ tasks' = tasks
          /\ gauges' = gauges
          /\ \A l \in LinesOf(out', "countersPrefix") :
               l.bucket \in DOMAIN counters /\ l.val = RatInt(counters[l.bucket])
          /\ \A l \in LinesOf(out', "gaugesPrefix") :
               l.bucket \in DOMAIN gauges /\ l.val = RatInt(gauges[l.bucket])
          /\ \A l \in LinesOf(out', "timersPrefix") :
               l.field = "count" =>
                 l.bucket \in DOMAIN timers
                   /\ l.val = RatInt(Len(timers[l.bucket]))
          /\ \A s \in DOMAIN counters' : counters'[s] = 0
          /\ \A u \in DOMAIN timers' : timers'[u] = << >>]_vars

\* a flush that ran while a Packet was waiting on the channel and a
\* goroutine was waiting to send
C14_Witness ==
  /\ out.flushed
  /\ In # << >>
  /\ tasks # << >>
  /\ \E l \in LinesOf(out, "countersPrefix") : l.val.n # 0

\* C15: a goroutine sends the Packets of its datagram in their order, each
\* to the back of the channel; monitor applies the Packet at the front; and
\* after an absolute gauge sample was applied the gauge holds the value of
\* that sample, the one received last
C15_Fifo ==
  [][/\ Len(In') > Len(In) =>
          \E i \in DOMAIN tasks :
            /\ In' = Append(In, Head(tasks[i]))
            /\ tasks' = AfterSend(i)
     /\ Len(In') < Len(In) =>
          /\ In' = Tail(In)
          /\ Head(In).Modifier = <<"g">> =>
               gaugeLog' = Append(gaugeLog, Head(In))
     /\ gaugeLog' # << >> =>
          LET last == gaugeLog'[Len(gaugeLog')]
          IN  ~HasSign(last.Value) =>
                gauges'[last.Bucket] = Atoi(last.Value).val]_vars

\* the sample of one datagram on the channel between the two samples of
\* another, the first of which has been applied
C15_Witness ==
  /\ In = <<Decoded[BufTemp5][1], Decoded[BufTempPair][2]>>
  /\ gaugeLog # << >>
  /\ gaugeLog[Len(gaugeLog)] = Decoded[BufTempPair][1]
  /\ gauges[Decoded[BufTempPair][1].Bucket] = 1

\* C16: applying a gauge sample with a value "+n" adds n to the gauge of
\* its bucket, one with "-n" subtracts n, and any other integer n replaces
\* it; a bucket that is absent counts as 0; no other gauge and no counter
\* or timer changes
C16_GaugeOps ==
  [][(In # << >> /\ In' = Tail(In) /\ Head(In).Modifier = <<"g">>) =>
       LET s == Head(In)
           b == s.Bucket
           old == IF b \in DOMAIN gauges THEN gauges[b] ELSE 0
           n == DigitsVal(Unsigned(s.Value))
       IN  /\ DOMAIN gauges' = DOMAIN gauges \cup {b}
           /\ gauges'[b] = IF s.Value[1] = "+" THEN old + n
                           ELSE IF s.Value[1] = "-" THEN old - n
                           ELSE n
           /\ \A i \in DOMAIN gauges \ {b} : gauges'[i] = gauges[i]
           /\ counters' = counters
           /\ timers' = timers]_vars

\* "-1" applied to the gauge temp holding 5 and "-5" to the absent gauge u
C16_Witness ==
  /\ gaugeLog # << >>
  /\ gaugeLog[Len(gaugeLog)] = Decoded[BufTempMinus1][1]
  /\ gauges[Decoded[BufTempMinus1][1].Bucket] = 4
  /\ Decoded[BufOtherMinus5][1].Bucket \in DOMAIN gauges
  /\ gauges[Decoded[BufOtherMinus5][1].Bucket] = -5

\* the matches of packetRegexp in the datagrams of the workload of
\* malformed values
MalformedItems ==
  UNION {{FindAll(Sanitize(buf), 1)[i] : i \in 1..Len(Decoded[buf])} :
           buf \in MalformedBuffers}

\* the Packet p was decoded from a sample whose value does not parse: as an
\* integer for a gauge, as a decimal for a counter or a timer
ValueFails(p) ==
  \E it \in MalformedItems :
    /\ PacketOf(it) = p
    /\ IF it.item3 = <<"g">> THEN ~Atoi(it.item2).ok
       ELSE ~ReadDecimal(it.item2).ok

\* C17: applying a sample whose value does not parse leaves monitor running
\* and leaves the counter, the gauge and the observations of the sample's
\* bucket as they were
C17_ParseFailureNoOp ==
  [][(In # << >> /\ In' = Tail(In) /\ ValueFails(Head(In))) =>
       LET b == Head(In).Bucket
       IN  /\ running'
           /\ MapGet(counters', b, 0) = MapGet(counters, b, 0)
           /\ MapGet(gauges', b, 0) = MapGet(gauges, b, 0)
           /\ MapGet(timers', b, << >>) = MapGet(timers, b, << >>)]_vars

\* C18: for every counter bucket a flush reports, the rate times the flush
\* interval in seconds is the raw count, and a raw count of 100 is reported
\* with the rate 10
C18_RatePerSecond ==
  out.flushed =>
    \A b \in BucketsOf(out, "countersPrefix") :
      \A r \in BucketLines(out, "statsPrefix", b),
         c \in BucketLines(out, "countersPrefix", b) :
        /\ r.val.n * flushInterval = c.val.n * r.val.d
        /\ c.val = RatInt(100) => r.val = RatInt(10)

\* C19: a Packet on the channel is eventually received by monitor (the
\* channel is empty again and again, or monitor receives from it again and
\* again, so that with a channel in FIFO order no Packet waits forever), and
\* flushes keep happening whatever arrives
C19_NoStarvation ==
  /\ []<>(In = << >>) \/ []<><<In # << >> /\ In' = Tail(In)>>_vars
  /\ []<>out.flushed

\* the raw count the flush o reports for the counter bucket b, 0 when it
\* reports none
ReportedCount(o, b) ==
  IF o.flushed /\ BucketLines(o, "countersPrefix", b) # {}
  THEN (CHOOSE l \in BucketLines(o, "countersPrefix", b) : TRUE).val.n
  ELSE 0

\* C20: in every step and for every counter bucket, what the step adds to
\* the counts reported so far plus the change of the accumulated count is
\* the contribution of the counter sample the step applies to the bucket,
\* if any; so reported plus accumulated is always the sum of the
\* contributions applied, and a flush reports one raw count per bucket
C20_CounterConservation ==
  [][\A b \in DOMAIN counters' :
       LET applied ==
             IF /\ In # << >> /\ In' = Tail(In)
                /\ Head(In).Modifier = <<"c">> /\ Head(In).Bucket = b
             THEN CounterDelta(Head(In)).val ELSE 0
       IN  /\ ReportedCount(out', b) + counters'[b] - MapGet(counters, b, 0)
                = applied
           /\ out'.flushed =>
                Cardinality(BucketLines(out', "countersPrefix", b)) = 1]_vars

\* a flush that reported the contributions of three samples, 10, 1 and 19
C20_Witness ==
  /\ out.flushed
  /\ \E l \in LinesOf(out, "countersPrefix") : l.val = RatInt(30)
  /\ \A s \in DOMAIN counters : counters[s] = 0

====
